---- MODULE Spec2Model ----
(***************************************************************************)
(* Override lifecycle engine of Logger Tracker (LoggerFlow).               *)
(*                                                                         *)
(* The repository carries two App components that drive the same           *)
(* localStorage key and broadcast channel:                                 *)
(*   "v1"  the earlier App (handleApplyChanges, inline onKeep/onAccept)    *)
(*   "v2"  the main App (handleApplyBulk, handleRenewOverride, ...)        *)
(* A run is one build of the application opened in two browser tabs.       *)
(* Times are milliseconds, as returned by Date.now().                      *)
(***************************************************************************)
EXTENDS Integers, Sequences, FiniteSets, TLC

\* ---------------------------------------------------------------- bounds
MaxNow == 120000
MaxNowLate == 160000
ClockStep == 40000
MaxIds == 3
MaxQueue == 1
MaxPulse == 2
MaxCommands == 3
MaxSkew == 1

\* ------------------------------------------------------ program constants
EXPIRY_WARNING_THRESHOLD_MS == 60000
KEEP_EXTENSION_MS == 600000

Tabs == {"A", "B"}
Variants == {"v1", "v2"}
Services == {"auth-svc", "order-api"}
Envs == {"env13", "env35"}
Levels == {"DEBUG", "TRACE"}
DURATION_OPTIONS == {120000}

\* what the operator selects before pressing Apply: the services in the
\* order they were ticked, the environment, the level and the duration
Selections ==
  { [sel |-> <<"auth-svc">>, env |-> "env13", level |-> "DEBUG", dur |-> 120000],
    [sel |-> <<"auth-svc">>, env |-> "env35", level |-> "TRACE", dur |-> 120000],
    [sel |-> <<"order-api", "auth-svc">>, env |-> "env13", level |-> "TRACE",
     dur |-> 120000] }

\* the selection that applies auth-svc in the k-th environment
Selections_at(k) ==
  IF k = 1
  THEN [sel |-> <<"auth-svc">>, env |-> "env13", level |-> "DEBUG", dur |-> 120000]
  ELSE [sel |-> <<"auth-svc">>, env |-> "env35", level |-> "TRACE", dur |-> 120000]

\* milliseconds that may pass between two successive calls of Date.now()
NoGap == {0}
ReadGaps == {0, 1}

ServiceName(svc) == IF svc = "auth-svc" THEN "Authentication Service"
                    ELSE "Order Processing API"

VARIABLES
  variant,           \* which App component this build runs
  now,               \* Date.now()
  storage,           \* localStorage[STORAGE_KEY]
  nextId,            \* number of overrides created so far
  user,              \* user[t]: an operator session is active
  connectionStatus,  \* connectionStatus[t]
  connectedEnv,      \* user.connectedEnv of tab t
  activeOverrides,   \* activeOverrides[t]: the tab's list
  notifiedIds,       \* notifiedIdsRef.current of tab t
  applying,          \* the apply in flight in tab t (isApplying and its closure)
  reverting,         \* v1: ids whose remote revert call is pending
  storageEvents,     \* storage events queued for tab t
  pulses,            \* broadcast messages queued for tab t
  persistPending,    \* the persist effect of tab t has yet to run
  revertedAlerts,    \* per tab: how often each id was named in a reverted alert
  lastWarned,        \* per tab: ids named in the warning alert of the last tick
  commands           \* operator commands issued so far

vars == <<variant, now, storage, nextId, user, connectionStatus, connectedEnv,
          activeOverrides, notifiedIds, applying, reverting, storageEvents,
          pulses, persistPending, revertedAlerts, lastWarned, commands>>

\* ------------------------------------------------------------ sequences
Range(s) == {s[i] : i \in 1..Len(s)}

Ids(list) == {o.id : o \in Range(list)}

\* ------------------------------------------------------- storage values
NullValue == [kind |-> "null", rows |-> <<>>]

JsonValue(rows) == [kind |-> "json", rows |-> rows]

\* a stored text on which JSON.parse throws
TextValue == [kind |-> "text", rows |-> <<>>]

\* a field that the parsed object does not have
Undefined == "undefined"

\* a persisted row that keeps every field of the override
StripRow_keep(o) == o

\* const cleanState = activeOverrides.map(({ isExpiringSoon, ...rest }) => rest)
StripRow(o) == [id |-> o.id, serviceId |-> o.serviceId,
                serviceName |-> o.serviceName, envId |-> o.envId,
                level |-> o.level, startTime |-> o.startTime,
                expiryTime |-> o.expiryTime, totalDuration |-> o.totalDuration]

cleanState(list) == [i \in 1..Len(list) |-> StripRow(list[i])]

WithFlag(r, flag) == [id |-> r.id, serviceId |-> r.serviceId,
                      serviceName |-> r.serviceName, envId |-> r.envId,
                      level |-> r.level, startTime |-> r.startTime,
                      expiryTime |-> r.expiryTime,
                      totalDuration |-> r.totalDuration,
                      isExpiringSoon |-> flag]

IsExpiringSoonAt(expiryTime, t) == expiryTime - t < EXPIRY_WARNING_THRESHOLD_MS

\* a derivation that also drops the rows already expired at t
calculateDerivedState_live(rows, t) ==
  LET live == SelectSeq(rows, LAMBDA r : r.expiryTime > t)
  IN [i \in 1..Len(live) |->
        WithFlag(live[i], IsExpiringSoonAt(live[i].expiryTime, t))]

\* calculateDerivedState, evaluated at Date.now() = t
calculateDerivedState(rows, t) ==
  [i \in 1..Len(rows) |-> WithFlag(rows[i], IsExpiringSoonAt(rows[i].expiryTime, t))]

NoApply == [active |-> FALSE, pending |-> <<>>, selected |-> {}, entries |-> <<>>,
            failed |-> {}, env |-> "env13", level |-> "DEBUG", dur |-> 0,
            t0 |-> 0, demo |-> TRUE]

Others(t) == Tabs \ {t}

\* ------------------------------------------------------------------ Init
\* Both tabs are mounted on an empty store and the persist effect of the
\* first render has written the empty list.
Init ==
  /\ variant \in Variants
  /\ now = 0
  /\ storage = JsonValue(<<>>)
  /\ nextId = 0
  /\ user = [t \in Tabs |-> FALSE]
  /\ connectionStatus = [t \in Tabs |-> "demo"]
  /\ connectedEnv = [t \in Tabs |-> "env13"]
  /\ activeOverrides = [t \in Tabs |-> <<>>]
  /\ notifiedIds = [t \in Tabs |-> {}]
  /\ applying = [t \in Tabs |-> NoApply]
  /\ reverting = [t \in Tabs |-> {}]
  /\ storageEvents = [t \in Tabs |-> <<>>]
  /\ pulses = [t \in Tabs |-> 0]
  /\ persistPending = [t \in Tabs |-> FALSE]
  /\ revertedAlerts = [t \in Tabs |-> [once |-> {}, again |-> {}]]
  /\ lastWarned = [t \in Tabs |-> {}]
  /\ commands = 0

\* setActiveOverrides(list) in tab t: the list is replaced and the persist
\* effect, which depends on [activeOverrides], is scheduled.
SetList(t, list) ==
  /\ activeOverrides' = [activeOverrides EXCEPT ![t] = list]
  /\ persistPending' = [persistPending EXCEPT ![t] = TRUE]

\* an operator command is issued (the number of commands of a run is bounded)
Command == commands < MaxCommands /\ commands' = commands + 1

\* nothing is in flight: no request, no storage event, no broadcast message,
\* no effect
Quiet ==
  \A t \in Tabs : /\ ~applying[t].active
                  /\ storageEvents[t] = <<>>
                  /\ pulses[t] = 0
                  /\ ~persistPending[t]

\* the clock moves on; whatever is in flight is delivered within one step of
\* the clock
Advance ==
  /\ Quiet
  /\ now + ClockStep <= MaxNow
  /\ now' = now + ClockStep
  /\ UNCHANGED <<variant, storage, nextId, user, connectionStatus, connectedEnv,
                 activeOverrides, notifiedIds, applying, reverting,
                 storageEvents, pulses, persistPending, revertedAlerts,
                 lastWarned, commands>>

\* handleLogin, reduced to its outcome: a session starts, in demo or in
\* connected mode, for environment env
handleLogin(t, status, env) ==
  /\ ~user[t]
  /\ user' = [user EXCEPT ![t] = TRUE]
  /\ connectionStatus' = [connectionStatus EXCEPT ![t] = status]
  /\ connectedEnv' = [connectedEnv EXCEPT ![t] = env]
  /\ UNCHANGED <<variant, now, storage, nextId, activeOverrides, notifiedIds,
                 applying, reverting, storageEvents, pulses, persistPending,
                 revertedAlerts, lastWarned>>
  /\ Command

\* localStorage.removeItem / setItem: every other tab gets a storage event
\* carrying the new value, when the stored value changes
Notify(t, value) ==
  [u \in Tabs |-> IF u = t THEN storageEvents[u]
                  ELSE Append(storageEvents[u], value)]

QueuesHaveRoom(t) == \A u \in Others(t) : Len(storageEvents[u]) < MaxQueue

handleLogout(t) ==
  /\ user[t]
  /\ storage # NullValue => QueuesHaveRoom(t)
  /\ user' = [user EXCEPT ![t] = FALSE]
  /\ SetList(t, <<>>)
  /\ storage' = NullValue
  /\ storageEvents' = IF storage # NullValue THEN Notify(t, NullValue)
                      ELSE storageEvents
  /\ UNCHANGED <<variant, now, nextId, connectionStatus, connectedEnv,
                 notifiedIds, applying, reverting, pulses, revertedAlerts,
                 lastWarned>>
  /\ Command

\* the persist effect: useEffect(..., [activeOverrides])
PersistEffect(t) ==
  /\ persistPending[t]
  /\ LET json == JsonValue(cleanState(activeOverrides[t]))
     IN IF json # storage
        THEN /\ QueuesHaveRoom(t)
             /\ storage' = json
             /\ storageEvents' = Notify(t, json)
        ELSE UNCHANGED <<storage, storageEvents>>
  /\ persistPending' = [persistPending EXCEPT ![t] = FALSE]
  /\ UNCHANGED <<variant, now, nextId, user, connectionStatus, connectedEnv,
                 activeOverrides, notifiedIds, applying, reverting, pulses,
                 revertedAlerts, lastWarned, commands>>

\* an ingestion that adds the snapshot to what the tab holds
StorageIngest_merge(prev, rows, t1) ==
  calculateDerivedState(cleanState(prev) \o rows, t1)

\* handleStorageChange: setActiveOverrides(calculateDerivedState(remoteState))
StorageIngest(prev, rows, t1) == calculateDerivedState(rows, t1)

\* onmessage: the stored snapshot when there is one; the main App falls back
\* to setActiveOverrides(prev => calculateDerivedState(prev))
MessageIngest(prev, stored, t1) ==
  IF stored.kind = "json" THEN calculateDerivedState(stored.rows, t1)
  ELSE calculateDerivedState(cleanState(prev), t1)

\* handleStorageChange: e.key === STORAGE_KEY && e.newValue
handleStorageChange(t) ==
  /\ storageEvents[t] # <<>>
  /\ LET e == Head(storageEvents[t])
     IN IF e.kind = "json"
        THEN SetList(t, StorageIngest(activeOverrides[t], e.rows, now))
        ELSE UNCHANGED <<activeOverrides, persistPending>>
  /\ storageEvents' = [storageEvents EXCEPT ![t] = Tail(storageEvents[t])]
  /\ UNCHANGED <<variant, now, storage, nextId, user, connectionStatus,
                 connectedEnv, notifiedIds, applying, reverting, pulses,
                 revertedAlerts, lastWarned, commands>>

\* broadcastChannelRef.current.onmessage (FORCE_POPUP / SYNC_REQUIRED)
onmessage(t) ==
  /\ pulses[t] > 0
  /\ pulses' = [pulses EXCEPT ![t] = pulses[t] - 1]
  /\ IF storage.kind = "json" \/ (variant = "v2" /\ storage.kind = "null")
     THEN SetList(t, MessageIngest(activeOverrides[t], storage, now))
     ELSE UNCHANGED <<activeOverrides, persistPending>>
  /\ UNCHANGED <<variant, now, storage, nextId, user, connectionStatus,
                 connectedEnv, notifiedIds, applying, reverting, storageEvents,
                 revertedAlerts, lastWarned, commands>>

\* handleVisibilityChange (main App only), when the document becomes visible
handleVisibilityChange(t) ==
  /\ variant = "v2"
  /\ SetList(t, calculateDerivedState(cleanState(activeOverrides[t]), now))
  /\ UNCHANGED <<variant, now, storage, nextId, user, connectionStatus,
                 connectedEnv, notifiedIds, applying, reverting, storageEvents,
                 pulses, revertedAlerts, lastWarned>>
  /\ Command

\* ------------------------------------------------------------- the tick
Expired(prev, t) == SelectSeq(prev, LAMBDA o : o.expiryTime <= t)

Live(prev, t) == SelectSeq(prev, LAMBDA o : o.expiryTime > t)

\* a tick that recomputes the flags and filters nothing
TickNext_keep(prev, t) == calculateDerivedState(cleanState(prev), t)

\* const next = prev.filter(o => o.expiryTime > now).map(...)
TickNext(prev, t) == calculateDerivedState(cleanState(Live(prev, t)), t)

ExpiringIds(list) == {o.id : o \in {x \in Range(list) : x.isExpiringSoon}}

\* ids named in a reverted alert are counted once, then "again"
CountReverted(log, ids) ==
  [once |-> log.once \cup ids, again |-> log.again \cup (log.once \cap ids)]

\* a tick that warns about every expiring override, notified or not
needsNotification_all(next, notified) == ExpiringIds(next)

\* main App: needsNotification
needsNotification(next, notified) == ExpiringIds(next) \ notified

\* a tick that posts the message twice
PostPulse_twice(t) ==
  [u \in Tabs |-> IF u = t THEN pulses[u]
                  ELSE IF pulses[u] + 2 >= MaxPulse THEN MaxPulse
                  ELSE pulses[u] + 2]

\* main App: postMessage({ type: 'FORCE_POPUP' }) reaches every other tab
PostPulse(t) ==
  [u \in Tabs |-> IF u = t \/ pulses[u] >= MaxPulse THEN pulses[u]
                  ELSE pulses[u] + 1]

\* the services for which the interval callback calls updateServiceLogLevel
\* with the default level: neither tick effect makes a remote call
TickReverts(prev, t1) == {}

\* a tick that forgets no id
CleanNotified_keep(ids, next) == ids

\* 4. Cleanup notifiedIds: every id that is not expiring-soon in next is
\* deleted from the set
CleanNotified(ids, next) == ids \cap ExpiringIds(next)

\* an interval that is set whether or not an operator is signed in
TickRuns_always(t) == TRUE

\* if (!user) return; ... return () => clearInterval(tick); }, [user]): the
\* interval exists from login to logout
TickRuns(t) == user[t]

\* main App, tick effect: setInterval callback at Date.now() = now
TickV2(t) ==
  /\ variant = "v2"
  /\ TickRuns(t)
  /\ LET prev == activeOverrides[t]
         expired == Ids(Expired(prev, now))
         next == TickNext(prev, now)
         notified1 == notifiedIds[t] \ expired
         needs == needsNotification(next, notified1)
     IN /\ revertedAlerts' = [revertedAlerts EXCEPT
                                ![t] = CountReverted(revertedAlerts[t], expired)]
        /\ pulses' = IF ExpiringIds(next) # {} THEN PostPulse(t) ELSE pulses
        /\ lastWarned' = [lastWarned EXCEPT ![t] = needs]
        /\ notifiedIds' = [notifiedIds EXCEPT
                             ![t] = CleanNotified(notified1 \cup needs, next)]
        /\ SetList(t, next)
  /\ UNCHANGED <<variant, now, storage, nextId, user, connectionStatus,
                 connectedEnv, applying, reverting, storageEvents, commands>>

\* earlier App, tick effect
TickV1(t) ==
  /\ variant = "v1"
  /\ TickRuns(t)
  /\ LET prev == activeOverrides[t]
         expired == Ids(Expired(prev, now))
         fresh == expired \ notifiedIds[t]
     IN /\ revertedAlerts' = [revertedAlerts EXCEPT
                                ![t] = CountReverted(revertedAlerts[t], fresh)]
        /\ notifiedIds' = [notifiedIds EXCEPT ![t] = notifiedIds[t] \cup expired]
        /\ SetList(t, TickNext(prev, now))
  /\ UNCHANGED <<variant, now, storage, nextId, user, connectionStatus,
                 connectedEnv, applying, reverting, storageEvents, pulses,
                 lastWarned, commands>>

Tick(t) == IF variant = "v1" THEN TickV1(t) ELSE TickV2(t)

\* ------------------------------------------------- main App: apply
RemoveAt(q, i) == [j \in 1..(Len(q) - 1) |-> IF j < i THEN q[j] ELSE q[j + 1]]

\* handleApplyBulk up to the first await: the closure captures the selection
handleApplyBulk_start(t, s) ==
  /\ variant = "v2"
  /\ user[t]
  /\ ~applying[t].active
  /\ Len(s.sel) > 0
  /\ applying' = [applying EXCEPT ![t] =
                    [active |-> TRUE, pending |-> s.sel, selected |-> Range(s.sel),
                     entries |-> <<>>, failed |-> {}, env |-> s.env,
                     level |-> s.level, dur |-> s.dur, t0 |-> now,
                     demo |-> (connectionStatus[t] = "demo")]]
  /\ UNCHANGED <<variant, now, storage, nextId, user, connectionStatus,
                 connectedEnv, activeOverrides, notifiedIds, reverting,
                 storageEvents, pulses, persistPending, revertedAlerts,
                 lastWarned>>
  /\ Command

\* the entry pushed to successfulEntries: startTime and expiryTime come from
\* two calls of Date.now(), gap milliseconds apart
NewEntryV2(n, svc, a, t1, gap) ==
  [id |-> <<"r", n>>, serviceId |-> svc, serviceName |-> ServiceName(svc),
   envId |-> a.env, level |-> a.level, startTime |-> t1,
   expiryTime |-> t1 + gap + a.dur, totalDuration |-> a.dur]

\* one of the parallel requests of handleApplyBulk resolves
handleApplyBulk_resolve(t, i, success, gap) ==
  /\ variant = "v2"
  /\ applying[t].active
  /\ i \in 1..Len(applying[t].pending)
  /\ applying[t].demo => success
  /\ LET a == applying[t]
         svc == a.pending[i]
     IN IF success
        THEN /\ nextId < MaxIds
             /\ now + gap <= MaxNow
             /\ (now + gap) % ClockStep <= MaxSkew
             /\ nextId' = nextId + 1
             /\ now' = now + gap
             /\ applying' = [applying EXCEPT ![t] =
                  [a EXCEPT !.pending = RemoveAt(a.pending, i),
                            !.entries = Append(a.entries,
                                          NewEntryV2(nextId + 1, svc, a, now, gap))]]
        ELSE /\ gap = 0
             /\ applying' = [applying EXCEPT ![t] =
                  [a EXCEPT !.pending = RemoveAt(a.pending, i),
                            !.failed = a.failed \cup {ServiceName(svc)}]]
             /\ UNCHANGED <<nextId, now>>
  /\ UNCHANGED <<variant, storage, user, connectionStatus, connectedEnv,
                 activeOverrides, notifiedIds, reverting, storageEvents, pulses,
                 persistPending, revertedAlerts, lastWarned, commands>>

SameKey(n, o) == n.serviceId = o.serviceId /\ n.envId = o.envId

\* a filter that supersedes nothing
SupersedeV2_keepAll(prev, entries) == prev

\* prev.filter(o => !successfulEntries.some(n => same serviceId and envId))
SupersedeV2(prev, entries) ==
  SelectSeq(prev, LAMBDA o : ~\E n \in Range(entries) : SameKey(n, o))

\* the list handleApplyBulk installs
ApplyBulkResult(prev, entries, t1) ==
  calculateDerivedState(cleanState(SupersedeV2(prev, entries)) \o entries, t1)

\* what the handler tells the operator when it is done: the main App alerts
\* the names in failedIds, the earlier App keeps no failure list and says
\* nothing
ReportedFailures(a) == IF variant = "v2" THEN a.failed ELSE {}

\* handleApplyBulk after Promise.all
handleApplyBulk_commit(t) ==
  /\ variant = "v2"
  /\ applying[t].active
  /\ applying[t].pending = <<>>
  /\ IF applying[t].entries # <<>>
     THEN SetList(t, ApplyBulkResult(activeOverrides[t], applying[t].entries, now))
     ELSE UNCHANGED <<activeOverrides, persistPending>>
  /\ applying' = [applying EXCEPT ![t] = NoApply]
  /\ UNCHANGED <<variant, now, storage, nextId, user, connectionStatus,
                 connectedEnv, notifiedIds, reverting, storageEvents, pulses,
                 revertedAlerts, lastWarned, commands>>

\* ------------------------------------------- main App: renew and remove
\* a renewal that extends the running expiry instead of restarting the timer
RenewRow_extend(o, t1) ==
  WithFlag([o EXCEPT !.expiryTime = o.expiryTime + o.totalDuration], FALSE)

RenewRow(o, t1) == WithFlag([o EXCEPT !.expiryTime = t1 + o.totalDuration], FALSE)

\* prev.map(o => o.id === id ? {...o, expiryTime: Date.now() + o.totalDuration,
\*                              isExpiringSoon: false} : o)
RenewById(prev, id, t1) ==
  [i \in 1..Len(prev) |-> IF prev[i].id = id THEN RenewRow(prev[i], t1) ELSE prev[i]]

handleRenewOverride(t, id) ==
  /\ variant = "v2"
  /\ user[t]
  /\ id \in Ids(activeOverrides[t])
  /\ SetList(t, RenewById(activeOverrides[t], id, now))
  /\ UNCHANGED <<variant, now, storage, nextId, user, connectionStatus,
                 connectedEnv, notifiedIds, applying, reverting, storageEvents,
                 pulses, revertedAlerts, lastWarned>>
  /\ Command

\* prev.map(o => o.isExpiringSoon ? {...o, expiryTime: now + o.totalDuration,
\*                                   isExpiringSoon: false} : o)
RenewExpiring(prev, t1) ==
  [i \in 1..Len(prev) |-> IF prev[i].isExpiringSoon THEN RenewRow(prev[i], t1)
                          ELSE prev[i]]

\* const expiringList = activeOverrides.filter(o => o.isExpiringSoon)
expiringList(list) == SelectSeq(list, LAMBDA o : o.isExpiringSoon)

\* a prompt that needs more than one expiring override to show
DecisionModal_many(expiringOverrides) ==
  IF Len(expiringOverrides) <= 1 THEN [shown |-> FALSE, rows |-> <<>>]
  ELSE [shown |-> TRUE, rows |-> expiringOverrides]

\* DecisionModal: null when expiringOverrides is empty, else one row per entry
DecisionModal(expiringOverrides) ==
  IF Len(expiringOverrides) = 0 THEN [shown |-> FALSE, rows |-> <<>>]
  ELSE [shown |-> TRUE, rows |-> expiringOverrides]

\* what App renders in tab t: the login page without a session, else the
\* page with the DecisionModal
Render(t) ==
  IF ~user[t] THEN [page |-> "login", modal |-> [shown |-> FALSE, rows |-> <<>>]]
  ELSE [page |-> "app", modal |-> DecisionModal(expiringList(activeOverrides[t]))]

\* DecisionModal is rendered only while the expiring list is non-empty
ModalOpen(t) == user[t] /\ ExpiringIds(activeOverrides[t]) # {}

handleRenewAllExpiring(t) ==
  /\ variant = "v2"
  /\ ModalOpen(t)
  /\ SetList(t, RenewExpiring(activeOverrides[t], now))
  /\ UNCHANGED <<variant, now, storage, nextId, user, connectionStatus,
                 connectedEnv, notifiedIds, applying, reverting, storageEvents,
                 pulses, revertedAlerts, lastWarned>>
  /\ Command

\* a reset that drops only the first expiring override
DropExpiring_one(prev) ==
  LET hits == {i \in 1..Len(prev) : prev[i].isExpiringSoon}
  IN IF hits = {} THEN prev
     ELSE LET k == CHOOSE i \in hits : \A j \in hits : i <= j
          IN [j \in 1..(Len(prev) - 1) |-> IF j < k THEN prev[j] ELSE prev[j + 1]]

\* prev.filter(o => !o.isExpiringSoon)
DropExpiring(prev) == SelectSeq(prev, LAMBDA o : ~o.isExpiringSoon)

handleAcceptAllResets(t) ==
  /\ variant = "v2"
  /\ ModalOpen(t)
  /\ SetList(t, DropExpiring(activeOverrides[t]))
  /\ UNCHANGED <<variant, now, storage, nextId, user, connectionStatus,
                 connectedEnv, notifiedIds, applying, reverting, storageEvents,
                 pulses, revertedAlerts, lastWarned>>
  /\ Command

\* a removal that clears the list
DropId_all(prev, id) == <<>>

\* prev.filter(o => o.id !== id)
DropId(prev, id) == SelectSeq(prev, LAMBDA o : o.id # id)

handleRemoveOverride(t, id) ==
  /\ variant = "v2"
  /\ user[t]
  /\ id \in Ids(activeOverrides[t])
  /\ SetList(t, DropId(activeOverrides[t], id))
  /\ UNCHANGED <<variant, now, storage, nextId, user, connectionStatus,
                 connectedEnv, notifiedIds, applying, reverting, storageEvents,
                 pulses, revertedAlerts, lastWarned>>
  /\ Command

\* ------------------------------------------------ earlier App: apply
NewEntryV1(svc, env, level, dur, t1) ==
  [id |-> <<svc, t1>>, serviceId |-> svc, serviceName |-> ServiceName(svc),
   envId |-> env, level |-> level, startTime |-> t1, expiryTime |-> t1 + dur,
   totalDuration |-> dur, isExpiringSoon |-> FALSE]

\* prev.filter(o => !selectedServices.has(o.serviceId))
SupersedeV1(prev, selected) == SelectSeq(prev, LAMBDA o : o.serviceId \notin selected)

\* handleApplyChanges, demo branch: user!.connectedEnv || selectedEnv
handleApplyChanges_demo(t, s) ==
  /\ variant = "v1"
  /\ user[t]
  /\ ~applying[t].active
  /\ connectionStatus[t] = "demo"
  /\ Len(s.sel) > 0
  /\ nextId + Len(s.sel) <= MaxIds
  /\ nextId' = nextId + Len(s.sel)
  /\ LET newOverrides == [i \in 1..Len(s.sel) |->
                            NewEntryV1(s.sel[i], connectedEnv[t], s.level, s.dur, now)]
     IN SetList(t, SupersedeV1(activeOverrides[t], Range(s.sel)) \o newOverrides)
  /\ UNCHANGED <<variant, now, storage, user, connectionStatus, connectedEnv,
                 notifiedIds, applying, reverting, storageEvents, pulses,
                 revertedAlerts, lastWarned>>
  /\ Command

\* handleApplyChanges, connected branch, up to the first await
handleApplyChanges_start(t, s) ==
  /\ variant = "v1"
  /\ user[t]
  /\ ~applying[t].active
  /\ connectionStatus[t] # "demo"
  /\ Len(s.sel) > 0
  /\ applying' = [applying EXCEPT ![t] =
                    [active |-> TRUE, pending |-> s.sel, selected |-> Range(s.sel),
                     entries |-> <<>>, failed |-> {}, env |-> connectedEnv[t],
                     level |-> s.level, dur |-> s.dur, t0 |-> now, demo |-> FALSE]]
  /\ UNCHANGED <<variant, now, storage, nextId, user, connectionStatus,
                 connectedEnv, activeOverrides, notifiedIds, reverting,
                 storageEvents, pulses, persistPending, revertedAlerts,
                 lastWarned>>
  /\ Command

\* the awaited updateServiceLogLevel of the next selected service returns
handleApplyChanges_resolve(t, success) ==
  /\ variant = "v1"
  /\ applying[t].active
  /\ applying[t].pending # <<>>
  /\ LET a == applying[t]
         svc == Head(a.pending)
     IN IF success
        THEN /\ nextId < MaxIds
             /\ nextId' = nextId + 1
             /\ applying' = [applying EXCEPT ![t] =
                  [a EXCEPT !.pending = Tail(a.pending),
                            !.entries = Append(a.entries,
                               NewEntryV1(svc, a.env, a.level, a.dur, a.t0))]]
        ELSE /\ applying' = [applying EXCEPT ![t] =
                  [a EXCEPT !.pending = Tail(a.pending),
                            !.failed = a.failed \cup {ServiceName(svc)}]]
             /\ UNCHANGED nextId
  /\ UNCHANGED <<variant, now, storage, user, connectionStatus, connectedEnv,
                 activeOverrides, notifiedIds, reverting, storageEvents, pulses,
                 persistPending, revertedAlerts, lastWarned, commands>>

\* handleApplyChanges after the loop
handleApplyChanges_commit(t) ==
  /\ variant = "v1"
  /\ applying[t].active
  /\ applying[t].pending = <<>>
  /\ SetList(t, SupersedeV1(activeOverrides[t], applying[t].selected)
                  \o applying[t].entries)
  /\ applying' = [applying EXCEPT ![t] = NoApply]
  /\ UNCHANGED <<variant, now, storage, nextId, user, connectionStatus,
                 connectedEnv, notifiedIds, reverting, storageEvents, pulses,
                 revertedAlerts, lastWarned, commands>>

\* ------------------------------- earlier App: decision prompt and remove
\* onKeep: expiryTime + 600000, totalDuration + 600000, isExpiringSoon: false
KeepRow(o) ==
  WithFlag([o EXCEPT !.expiryTime = o.expiryTime + KEEP_EXTENSION_MS,
                     !.totalDuration = o.totalDuration + KEEP_EXTENSION_MS], FALSE)

KeepExpiring(prev, expiring) ==
  [i \in 1..Len(prev) |-> IF prev[i].id \in expiring THEN KeepRow(prev[i])
                          ELSE prev[i]]

onKeep(t) ==
  /\ variant = "v1"
  /\ ModalOpen(t)
  /\ SetList(t, KeepExpiring(activeOverrides[t], ExpiringIds(activeOverrides[t])))
  /\ UNCHANGED <<variant, now, storage, nextId, user, connectionStatus,
                 connectedEnv, notifiedIds, applying, reverting, storageEvents,
                 pulses, revertedAlerts, lastWarned>>
  /\ Command

\* onAccept: prev.filter(o => !expiringOverrides.find(e => e.id === o.id))
DropIds(prev, ids) == SelectSeq(prev, LAMBDA o : o.id \notin ids)

onAccept(t) ==
  /\ variant = "v1"
  /\ ModalOpen(t)
  /\ SetList(t, DropIds(activeOverrides[t], ExpiringIds(activeOverrides[t])))
  /\ UNCHANGED <<variant, now, storage, nextId, user, connectionStatus,
                 connectedEnv, notifiedIds, applying, reverting, storageEvents,
                 pulses, revertedAlerts, lastWarned>>
  /\ Command

\* earlier App, handleRemoveOverride: in connected mode the revert call is
\* awaited before the entry is filtered out
handleRemoveOverrideV1_start(t, id) ==
  /\ variant = "v1"
  /\ user[t]
  /\ id \in Ids(activeOverrides[t])
  /\ IF connectionStatus[t] # "demo"
     THEN /\ reverting' = [reverting EXCEPT ![t] = reverting[t] \cup {id}]
          /\ UNCHANGED <<activeOverrides, persistPending>>
     ELSE /\ SetList(t, DropId(activeOverrides[t], id))
          /\ UNCHANGED reverting
  /\ UNCHANGED <<variant, now, storage, nextId, user, connectionStatus,
                 connectedEnv, notifiedIds, applying, storageEvents, pulses,
                 revertedAlerts, lastWarned>>
  /\ Command

handleRemoveOverrideV1_finish(t, id) ==
  /\ variant = "v1"
  /\ id \in reverting[t]
  /\ reverting' = [reverting EXCEPT ![t] = reverting[t] \ {id}]
  /\ SetList(t, DropId(activeOverrides[t], id))
  /\ UNCHANGED <<variant, now, storage, nextId, user, connectionStatus,
                 connectedEnv, notifiedIds, applying, storageEvents, pulses,
                 revertedAlerts, lastWarned, commands>>

\* ids that occur anywhere in the system
AllIds == UNION {Ids(activeOverrides[t]) : t \in Tabs}
            \cup UNION {reverting[t] : t \in Tabs}

\* ------------------------------------------------------------ scheduling
\* A tab handles one event at a time and runs the effects of a render before
\* it takes the next event.
Ready(t) == ~persistPending[t]

\* the tabs in which an operator works
Operators == {"A"}

SystemStep(t) ==
  \/ PersistEffect(t)
  \/ Ready(t) /\ handleStorageChange(t)
  \/ Ready(t) /\ onmessage(t)
  \/ Ready(t) /\ handleVisibilityChange(t)

SessionStep(t) ==
  \/ \E status \in {"demo", "connected"}, env \in Envs :
        t \in Operators /\ handleLogin(t, status, env)
  \/ t \in Operators /\ Ready(t) /\ handleLogout(t)
  \/ Ready(t) /\ Tick(t)

MainAppStep(t, gaps) ==
  \/ \E s \in Selections : handleApplyBulk_start(t, s)
  \/ \E i \in 1..2, success \in BOOLEAN, gap \in gaps :
        handleApplyBulk_resolve(t, i, success, gap)
  \/ Ready(t) /\ handleApplyBulk_commit(t)
  \/ \E id \in AllIds : Ready(t) /\ handleRenewOverride(t, id)
  \/ Ready(t) /\ handleRenewAllExpiring(t)
  \/ Ready(t) /\ handleAcceptAllResets(t)
  \/ \E id \in AllIds : Ready(t) /\ handleRemoveOverride(t, id)

EarlierAppStep(t) ==
  \/ \E s \in Selections : Ready(t) /\ handleApplyChanges_demo(t, s)
  \/ \E s \in Selections : handleApplyChanges_start(t, s)
  \/ \E success \in BOOLEAN : handleApplyChanges_resolve(t, success)
  \/ Ready(t) /\ handleApplyChanges_commit(t)
  \/ Ready(t) /\ onKeep(t)
  \/ Ready(t) /\ onAccept(t)
  \/ \E id \in AllIds : Ready(t) /\ handleRemoveOverrideV1_start(t, id)
  \/ \E id \in AllIds : Ready(t) /\ handleRemoveOverrideV1_finish(t, id)

Next ==
  \/ Advance
  \/ \E t \in Tabs : SystemStep(t)
  \/ \E t \in Tabs : SessionStep(t)
  \/ \E t \in Operators : MainAppStep(t, NoGap)
  \/ \E t \in Operators : EarlierAppStep(t)

Spec == Init /\ [][Next]_vars

\* the main App, with the clock allowed to move between the two calls of
\* Date.now() that build an entry of handleApplyBulk
InitMain == Init /\ variant = "v2"

NextSkew ==
  \/ Advance
  \/ \E t \in Tabs : SystemStep(t)
  \/ \E t \in Operators : SessionStep(t)
  \/ \E t \in Operators : MainAppStep(t, ReadGaps)

SpecSkew == InitMain /\ [][NextSkew]_vars

\* the list an apply of order-api and auth-svc (env13, TRACE, two minutes) at
\* time 0 leaves in the applying tab
AppliedSelection ==
  [sel |-> <<"order-api", "auth-svc">>, env |-> "env13", level |-> "TRACE",
   dur |-> 120000]

AppliedList(v) ==
  IF v = "v1"
  THEN [i \in 1..2 |-> NewEntryV1(AppliedSelection.sel[i], "env13",
                                   AppliedSelection.level, AppliedSelection.dur, 0)]
  ELSE ApplyBulkResult(<<>>,
         [i \in 1..2 |-> NewEntryV2(i, AppliedSelection.sel[i], AppliedSelection,
                                     0, 0)], 0)

\* a run that starts when the operator of tab A has signed in (demo mode) and
\* applied AppliedSelection, and tab B has taken the snapshot in
InitApplied ==
  /\ variant \in Variants
  /\ now = 0
  /\ storage = JsonValue(cleanState(AppliedList(variant)))
  /\ nextId = 2
  /\ user = [t \in Tabs |-> t \in Operators]
  /\ connectionStatus = [t \in Tabs |-> "demo"]
  /\ connectedEnv = [t \in Tabs |-> "env13"]
  /\ activeOverrides =
       [t \in Tabs |-> IF t \in Operators THEN AppliedList(variant)
                       ELSE calculateDerivedState(cleanState(AppliedList(variant)), 0)]
  /\ notifiedIds = [t \in Tabs |-> {}]
  /\ applying = [t \in Tabs |-> NoApply]
  /\ reverting = [t \in Tabs |-> {}]
  /\ storageEvents = [t \in Tabs |-> <<>>]
  /\ pulses = [t \in Tabs |-> 0]
  /\ persistPending = [t \in Tabs |-> FALSE]
  /\ revertedAlerts = [t \in Tabs |-> [once |-> {}, again |-> {}]]
  /\ lastWarned = [t \in Tabs |-> {}]
  /\ commands = 0

\* from there on the operator only renews
RenewStep(t) ==
  \/ \E id \in AllIds : Ready(t) /\ handleRenewOverride(t, id)
  \/ Ready(t) /\ handleRenewAllExpiring(t)
  \/ Ready(t) /\ onKeep(t)

NextRenew ==
  \/ Advance
  \/ \E t \in Tabs : SystemStep(t)
  \/ \E t \in Operators : Ready(t) /\ Tick(t)
  \/ \E t \in Operators : RenewStep(t)

SpecRenew == InitApplied /\ [][NextRenew]_vars

\* ---- the main App over a renewal and the time after it ----
\* a tick of tab t would find nothing to do
TickSettled(t) ==
  /\ activeOverrides[t] = TickNext(activeOverrides[t], now)
  /\ notifiedIds[t] = CleanNotified(notifiedIds[t], activeOverrides[t])
  /\ needsNotification(activeOverrides[t], notifiedIds[t]) = {}

\* the clock moves on after the interval, whose period of one second is
\* shorter than a step of the clock, has fired in the signed-in tabs
AdvanceTicked ==
  /\ Quiet
  /\ \A t \in Tabs : user[t] => TickSettled(t)
  /\ now + ClockStep <= MaxNowLate
  /\ now' = now + ClockStep
  /\ UNCHANGED <<variant, storage, nextId, user, connectionStatus, connectedEnv,
                 activeOverrides, notifiedIds, applying, reverting,
                 storageEvents, pulses, persistPending, revertedAlerts,
                 lastWarned, commands>>

InitAgain == InitApplied /\ variant = "v2"

\* the operator renews what the last tick has shown
AgainStep(t) ==
  \/ \E id \in AllIds : Ready(t) /\ TickSettled(t) /\ handleRenewOverride(t, id)
  \/ Ready(t) /\ TickSettled(t) /\ handleRenewAllExpiring(t)

NextAgain ==
  \/ AdvanceTicked
  \/ \E t \in Tabs : SystemStep(t)
  \/ \E t \in Operators : Ready(t) /\ TickV2(t)
  \/ \E t \in Operators : AgainStep(t)

SpecAgain == InitAgain /\ [][NextAgain]_vars

\* ---- a signed-in tab to which nothing is ever delivered ----
\* the operator of the tab renews or removes, or answers the prompt
SoloStep(t) ==
  \/ \E id \in AllIds : Ready(t) /\ handleRenewOverride(t, id)
  \/ \E id \in AllIds : Ready(t) /\ handleRemoveOverride(t, id)
  \/ Ready(t) /\ onKeep(t)
  \/ Ready(t) /\ onAccept(t)

\* the other tab takes in what the first one writes
ListenStep(t) ==
  \/ PersistEffect(t)
  \/ Ready(t) /\ handleStorageChange(t)
  \/ Ready(t) /\ onmessage(t)

NextSolo ==
  \/ Advance
  \/ \E t \in Operators : PersistEffect(t)
  \/ \E t \in Operators : Ready(t) /\ Tick(t)
  \/ \E t \in Operators : SoloStep(t)
  \/ \E t \in Tabs \ Operators : ListenStep(t)

\* the interval keeps firing and effects run; the listeners of the other tab
\* are dispatched
FairSolo ==
  /\ \A t \in Operators : WF_vars(Ready(t) /\ Tick(t)) /\ WF_vars(PersistEffect(t))
  /\ \A t \in Tabs \ Operators : WF_vars(ListenStep(t))

SpecSolo == InitApplied /\ [][NextSolo]_vars /\ FairSolo

\* the list of a tab whose operator applied one override at 0 and another, of
\* a different key, one clock step later
StaggeredList(v) ==
  IF v = "v1"
  THEN <<NewEntryV1("auth-svc", "env13", "DEBUG", 120000, 0),
         NewEntryV1("order-api", "env13", "TRACE", 120000, ClockStep)>>
  ELSE calculateDerivedState(
         <<NewEntryV2(1, "auth-svc", Selections_at(1), 0, 0),
           NewEntryV2(2, "auth-svc", Selections_at(2), ClockStep, 0)>>, ClockStep)

\* a run that starts there, with tab B in step, and in which the operator
\* only answers the decision prompt
InitGate ==
  /\ variant \in Variants
  /\ now = ClockStep
  /\ storage = JsonValue(cleanState(StaggeredList(variant)))
  /\ nextId = 2
  /\ user = [t \in Tabs |-> t \in Operators]
  /\ connectionStatus = [t \in Tabs |-> "demo"]
  /\ connectedEnv = [t \in Tabs |-> "env13"]
  /\ activeOverrides =
       [t \in Tabs |-> IF t \in Operators THEN StaggeredList(variant)
                       ELSE calculateDerivedState(
                              cleanState(StaggeredList(variant)), ClockStep)]
  /\ notifiedIds = [t \in Tabs |-> {}]
  /\ applying = [t \in Tabs |-> NoApply]
  /\ reverting = [t \in Tabs |-> {}]
  /\ storageEvents = [t \in Tabs |-> <<>>]
  /\ pulses = [t \in Tabs |-> 0]
  /\ persistPending = [t \in Tabs |-> FALSE]
  /\ revertedAlerts = [t \in Tabs |-> [once |-> {}, again |-> {}]]
  /\ lastWarned = [t \in Tabs |-> {}]
  /\ commands = 0

GateStep(t) ==
  \/ Ready(t) /\ handleRenewAllExpiring(t)
  \/ Ready(t) /\ handleAcceptAllResets(t)
  \/ Ready(t) /\ onKeep(t)
  \/ Ready(t) /\ onAccept(t)

NextGate ==
  \/ Advance
  \/ \E t \in Tabs : SystemStep(t)
  \/ \E t \in Operators : Ready(t) /\ Tick(t)
  \/ \E t \in Operators : GateStep(t)

SpecGate == InitGate /\ [][NextGate]_vars

\* ---- values written to the storage key by something other than the App ----

\* a parsed array element that has an id and the times of an override, and
\* neither service, environment nor level
ForeignRow == [id |-> <<"x", 0>>, serviceId |-> Undefined,
               serviceName |-> Undefined, envId |-> Undefined,
               level |-> Undefined, startTime |-> 0,
               expiryTime |-> MaxNow, totalDuration |-> MaxNow]

ForeignValues == {TextValue, JsonValue(<<ForeignRow>>)}

\* the init effect: what is found in storage at mount, without the rows
\* already expired
InitialLoad(stored, t1) ==
  IF stored.kind = "json"
  THEN calculateDerivedState(SelectSeq(stored.rows, LAMBDA o : o.expiryTime > t1), t1)
  ELSE <<>>

\* two tabs mount on what an earlier session, or another writer, left under
\* the storage key; the operator of tab A is signed in
InitIngest ==
  /\ variant \in Variants
  /\ now = ClockStep
  /\ storage \in {JsonValue(cleanState(StaggeredList(variant)))} \cup ForeignValues
  /\ nextId = 2
  /\ user = [t \in Tabs |-> t \in Operators]
  /\ connectionStatus = [t \in Tabs |-> "demo"]
  /\ connectedEnv = [t \in Tabs |-> "env13"]
  /\ activeOverrides = [t \in Tabs |-> InitialLoad(storage, now)]
  /\ notifiedIds = [t \in Tabs |-> {}]
  /\ applying = [t \in Tabs |-> NoApply]
  /\ reverting = [t \in Tabs |-> {}]
  /\ storageEvents = [t \in Tabs |-> <<>>]
  /\ pulses = [t \in Tabs |-> 0]
  /\ persistPending = [t \in Tabs |-> TRUE]
  /\ revertedAlerts = [t \in Tabs |-> [once |-> {}, again |-> {}]]
  /\ lastWarned = [t \in Tabs |-> {}]
  /\ commands = 0

\* another document of the origin sets the storage key: every tab of the App
\* receives a storage event with the new value
ForeignWrite(v) ==
  /\ storage # v
  /\ \A t \in Tabs : Len(storageEvents[t]) < MaxQueue
  /\ storage' = v
  /\ storageEvents' = [t \in Tabs |-> Append(storageEvents[t], v)]
  /\ UNCHANGED <<variant, now, nextId, user, connectionStatus, connectedEnv,
                 activeOverrides, notifiedIds, applying, reverting, pulses,
                 persistPending, revertedAlerts, lastWarned>>
  /\ Command

NextIngest ==
  \/ Advance
  \/ \E t \in Tabs : SystemStep(t)
  \/ \E t \in Operators : Ready(t) /\ Tick(t)
  \/ \E v \in ForeignValues : ForeignWrite(v)

SpecIngest == InitIngest /\ [][NextIngest]_vars

\* two operators, one per tab, signed in to the main App in demo mode; both
\* apply the same service in the same environment and do nothing else
InitDuo ==
  /\ variant = "v2"
  /\ now = 0
  /\ storage = JsonValue(<<>>)
  /\ nextId = 0
  /\ user = [t \in Tabs |-> TRUE]
  /\ connectionStatus = [t \in Tabs |-> "demo"]
  /\ connectedEnv = [t \in Tabs |-> "env13"]
  /\ activeOverrides = [t \in Tabs |-> <<>>]
  /\ notifiedIds = [t \in Tabs |-> {}]
  /\ applying = [t \in Tabs |-> NoApply]
  /\ reverting = [t \in Tabs |-> {}]
  /\ storageEvents = [t \in Tabs |-> <<>>]
  /\ pulses = [t \in Tabs |-> 0]
  /\ persistPending = [t \in Tabs |-> FALSE]
  /\ revertedAlerts = [t \in Tabs |-> [once |-> {}, again |-> {}]]
  /\ lastWarned = [t \in Tabs |-> {}]
  /\ commands = 0

SameKeySelections ==
  {s \in Selections : s.sel = <<"auth-svc">> /\ s.env = "env13"}

ResolveDuo(t) == handleApplyBulk_resolve(t, 1, TRUE, 0)

CommitDuo(t) == Ready(t) /\ handleApplyBulk_commit(t)

IngestDuo(t) == Ready(t) /\ handleStorageChange(t)

NextDuo ==
  \/ \E t \in Tabs, s \in SameKeySelections : handleApplyBulk_start(t, s)
  \/ \E t \in Tabs : ResolveDuo(t)
  \/ \E t \in Tabs : CommitDuo(t)
  \/ \E t \in Tabs : PersistEffect(t)
  \/ \E t \in Tabs : IngestDuo(t)

\* requests resolve, effects run and queued storage events are dispatched
FairDuo ==
  \A t \in Tabs : /\ WF_vars(ResolveDuo(t))
                   /\ WF_vars(CommitDuo(t))
                   /\ WF_vars(PersistEffect(t))
                   /\ WF_vars(IngestDuo(t))

SpecDuo == InitDuo /\ [][NextDuo]_vars /\ FairDuo

\* ---------------------------------------------------------------- claims
Key(o) == <<o.serviceId, o.envId>>

\* C1: in every reachable state each tab's list holds at most one override
\* per (serviceId, envId) pair.
C1_OnePerKey ==
  \A t \in Tabs : \A i, j \in 1..Len(activeOverrides[t]) :
     Key(activeOverrides[t][i]) = Key(activeOverrides[t][j]) => i = j

\* a tab holds the same service for two environments: the second apply has
\* gone through and kept the first
C1_Witness ==
  \E t \in Tabs : \E i, j \in 1..Len(activeOverrides[t]) :
    /\ i # j
    /\ activeOverrides[t][i].serviceId = activeOverrides[t][j].serviceId
    /\ activeOverrides[t][i].envId # activeOverrides[t][j].envId

KeysOf(rows) == {Key(rows[i]) : i \in 1..Len(rows)}

OtherKeys(list, keys) == SelectSeq(list, LAMBDA o : Key(o) \notin keys)

\* an apply that installs the entries `rows` in tab t: each applied key has
\* exactly one entry, the new one, and the entries of other keys are as before
SupersedePost(t, rows) ==
  LET old == activeOverrides[t]
      new == activeOverrides'[t]
  IN /\ \A n \in Range(rows) :
          /\ Cardinality({i \in 1..Len(new) : Key(new[i]) = Key(n)}) = 1
          /\ \E i \in 1..Len(new) : StripRow(new[i]) = StripRow(n)
     /\ cleanState(OtherKeys(new, KeysOf(rows))) = cleanState(OtherKeys(old, KeysOf(rows)))

\* the rows a demo-mode handleApplyChanges of selection s creates in tab t
DemoRows(t, s) ==
  [i \in 1..Len(s.sel) |->
     NewEntryV1(s.sel[i], connectedEnv[t], s.level, s.dur, now)]

HasActive(t, rows) == KeysOf(rows) \cap KeysOf(activeOverrides[t]) # {}

\* C2: when an apply succeeds for a key that already has an override in the
\* tab, the resulting list holds exactly one entry for that key, the new one
\* (new level, new expiryTime), and the overrides of every other key are
\* unchanged.
C2_Supersede ==
  [][\A t \in Tabs :
       /\ (handleApplyBulk_commit(t) \/ handleApplyChanges_commit(t))
            /\ applying[t].entries # <<>> /\ HasActive(t, applying[t].entries)
          => SupersedePost(t, applying[t].entries)
       /\ \A s \in Selections :
            handleApplyChanges_demo(t, s) /\ HasActive(t, DemoRows(t, s))
              => SupersedePost(t, DemoRows(t, s))]_vars

WellTimed(o) == o.expiryTime > o.startTime

ExactDuration(o) == o.totalDuration = o.expiryTime - o.startTime

\* C3: every override a tab creates has expiryTime > startTime and
\* totalDuration = expiryTime - startTime when it is inserted into the list,
\* and expiryTime > startTime holds for every override of every list in every
\* state (snapshots taken in from storage included).
C3_Durations ==
  [][\A t \in Tabs :
       /\ \A o \in Range(activeOverrides'[t]) : WellTimed(o)
       /\ (handleApplyBulk_commit(t) \/ handleApplyChanges_commit(t))
            => \A o \in Range(applying[t].entries) :
                  WellTimed(o) /\ ExactDuration(o)
       /\ \A s \in Selections :
            handleApplyChanges_demo(t, s)
              => \A o \in Range(DemoRows(t, s)) :
                    WellTimed(o) /\ ExactDuration(o)]_vars

FlagsFresh(list, t1) ==
  \A o \in Range(list) : o.isExpiringSoon = IsExpiringSoonAt(o.expiryTime, t1)

\* C4: right after every operation that changes a tab's list (tick, apply,
\* renew, renew-all, accept-all-resets, remove, storage ingestion, broadcast
\* ingestion) every override of the list has
\* isExpiringSoon = (expiryTime - now < 60000) for the time of the operation.
C4_FlagsFresh ==
  [][\A t \in Tabs :
       activeOverrides'[t] # activeOverrides[t]
         => FlagsFresh(activeOverrides'[t], now')]_vars

\* the row a renewal at time t1 must produce: expiryTime = t1 + totalDuration,
\* flag cleared, every other field as before
Renewed(o, t1) ==
  [o EXCEPT !.expiryTime = t1 + o.totalDuration, !.isExpiringSoon = FALSE]

\* C5: renewing an override (renew by id, renew-all or keep from the decision
\* prompt) sets expiryTime to now + totalDuration, clears isExpiringSoon and
\* leaves id, serviceId, envId, level, startTime and totalDuration unchanged.
C5_Renew ==
  [][\A t \in Tabs :
       LET old == activeOverrides[t]
           new == activeOverrides'[t]
       IN /\ \A id \in AllIds :
               handleRenewOverride(t, id)
                 => \A i \in 1..Len(old) :
                       old[i].id = id => new[i] = Renewed(old[i], now)
          /\ (handleRenewAllExpiring(t) \/ onKeep(t))
               => \A i \in 1..Len(old) :
                     old[i].isExpiringSoon => new[i] = Renewed(old[i], now)]_vars

\* C6: renewal is idempotent: a renewal (by id, renew-all, keep) invoked again
\* on the list it has just produced, with the clock where it was, yields the
\* same list (same expiryTime, same totalDuration).
C6_Idempotent ==
  [][\A t \in Tabs :
       LET new == activeOverrides'[t]
       IN /\ \A id \in AllIds :
               handleRenewOverride(t, id) => RenewById(new, id, now') = new
          /\ handleRenewAllExpiring(t) => RenewExpiring(new, now') = new
          /\ onKeep(t) => KeepExpiring(new, ExpiringIds(new)) = new]_vars

\* an override has been renewed after the clock moved: its timer was restarted
\* (main App) or extended (earlier App) and a second renewal is on offer
C6_Witness ==
  \E t \in Operators : \E o \in Range(activeOverrides[t]) :
    /\ now > 0
    /\ commands >= 2
    /\ ~o.isExpiringSoon
    /\ \/ variant = "v2" /\ o.expiryTime = now + o.totalDuration
       \/ variant = "v1" /\ o.totalDuration > AppliedSelection.dur

\* C7: in a tab with a session, the first tick at which expiryTime <= now
\* removes the override, and over the whole run the tab fires exactly one
\* reverted alert per override id: no later tick or ingestion leads to a
\* second reverted alert for an id.
C7_RevertedOnce ==
  [][\A t \in Tabs :
       /\ Tick(t) => \A o \in Range(activeOverrides'[t]) : o.expiryTime > now
       /\ revertedAlerts'[t].again = {}]_vars

\* ids of the overrides of a list that are live and expiring soon at time t1
SoonAt(list, t1) ==
  {o.id : o \in {x \in Range(list) :
                   x.expiryTime > t1 /\ IsExpiringSoonAt(x.expiryTime, t1)}}

\* C8: (main App) a tick alerts exactly for the overrides that are expiring
\* soon and are not in the notified set, i.e. were not expiring soon at the
\* tick before; after the tick the notified set is the set of expiring
\* overrides, so that no later tick alerts again for an id while it stays
\* expiring soon, whatever was ingested in between.
C8_WarnOnce ==
  [][\A t \in Tabs :
       TickV2(t)
         => /\ lastWarned'[t] = SoonAt(activeOverrides[t], now) \ notifiedIds[t]
            /\ notifiedIds'[t] = SoonAt(activeOverrides[t], now)
            /\ ExpiringIds(activeOverrides'[t]) = SoonAt(activeOverrides[t], now)]_vars

\* a later tick of the main App found an override still expiring soon and
\* did not alert again
C8_Witness ==
  \E t \in Tabs :
    /\ variant = "v2"
    /\ user[t]
    /\ notifiedIds[t] # {}
    /\ notifiedIds[t] \subseteq ExpiringIds(activeOverrides[t])
    /\ lastWarned[t] = {}

\* row r of a snapshot and override o agree on id, serviceId, serviceName,
\* envId, level, startTime, expiryTime and totalDuration
SameOverride(o, r) ==
  /\ o.id = r.id /\ o.serviceId = r.serviceId /\ o.serviceName = r.serviceName
  /\ o.envId = r.envId /\ o.level = r.level /\ o.startTime = r.startTime
  /\ o.expiryTime = r.expiryTime /\ o.totalDuration = r.totalDuration

SameList(list, rows) ==
  /\ Len(list) = Len(rows)
  /\ \A i \in 1..Len(list) : SameOverride(list[i], rows[i])

\* C9: the persist effect of a tab writes its list, entry by entry, and sends
\* it to the other tab; a tab that processes the storage event of a snapshot
\* holds exactly the entries of that snapshot afterwards. Starting from two
\* empty tabs and one override X created in A, B's list is <<X>> once it has
\* processed A's event.
C9_Snapshot ==
  [][\A t \in Tabs :
       /\ PersistEffect(t)
            => /\ SameList(activeOverrides[t], storage'.rows)
               /\ storage' # storage
                    => \A u \in Others(t) :
                          storageEvents'[u] = Append(storageEvents[u], storage')
       /\ handleStorageChange(t) /\ Head(storageEvents[t]).kind = "json"
            => SameList(activeOverrides'[t], Head(storageEvents[t]).rows)]_vars

\* one override has been created, by tab A; tab B has processed the event and
\* holds that one entry
C9_Witness ==
  /\ nextId = 1
  /\ \A t \in Tabs : storageEvents[t] = <<>> /\ ~persistPending[t]
  /\ Len(activeOverrides["A"]) = 1
  /\ Len(activeOverrides["B"]) = 1
  /\ SameOverride(activeOverrides["B"][1], activeOverrides["A"][1])
  /\ storage = JsonValue(<<StripRow(activeOverrides["A"][1])>>)

\* nothing is in flight and both tabs hold the snapshot in storage, with one
\* entry per key
Settled ==
  /\ Quiet
  /\ \A t \in Tabs : /\ storage = JsonValue(cleanState(activeOverrides[t]))
                      /\ \A i, j \in 1..Len(activeOverrides[t]) :
                            Key(activeOverrides[t][i]) = Key(activeOverrides[t][j])
                              => i = j

\* C10: when two tabs create an override for the same (serviceId, envId)
\* concurrently and the operators then stop, every interleaving of writes,
\* storage events and persist effects ends in a quiescent state in which
\* both tabs hold the snapshot written last, with one entry for the key; the
\* tabs do not go on overwriting each other's snapshot.
C10_Converges == <>[]Settled

C12_RenewAll ==
  [][\A t \in Tabs :
       (handleRenewAllExpiring(t) \/ onKeep(t))
         => LET old == activeOverrides[t]
                new == activeOverrides'[t]
            IN /\ Len(new) = Len(old)
               /\ \A i \in 1..Len(old) :
                     new[i] = IF old[i].isExpiringSoon THEN Renewed(old[i], now)
                              ELSE old[i]
               /\ ExpiringIds(new) = {}]_vars

\* C13: in a logged-in tab the decision prompt is shown exactly when the set
\* of overrides with isExpiringSoon = TRUE is non-empty, and it lists exactly
\* those overrides.
C13_Gate ==
  \A t \in Tabs :
    user[t] =>
      LET modal == Render(t).modal
          expiring == {o \in Range(activeOverrides[t]) : o.isExpiringSoon}
      IN /\ modal.shown <=> expiring # {}
         /\ Range(modal.rows) = expiring
         /\ Len(modal.rows) = Cardinality(expiring)

\* the prompt is shown and lists two overrides
C13_Witness ==
  \E t \in Tabs :
    /\ user[t]
    /\ Render(t).modal.shown
    /\ Len(Render(t).modal.rows) = 2
    /\ Len(activeOverrides[t]) = 2

PersistedFields ==
  {"id", "serviceId", "serviceName", "envId", "level", "startTime", "expiryTime",
   "totalDuration"}

\* C14: no value written under the storage key holds an isExpiringSoon field:
\* every record a persist effect writes has exactly the fields id, serviceId,
\* serviceName, envId, level, startTime, expiryTime and totalDuration, with
\* the values of the writing tab's current list.
C14_NoFlagStored ==
  [][\A t \in Tabs :
       PersistEffect(t)
         => /\ storage'.kind = "json"
            /\ Len(storage'.rows) = Len(activeOverrides[t])
            /\ \A i \in 1..Len(storage'.rows) :
                  /\ DOMAIN storage'.rows[i] = PersistedFields
                  /\ \A f \in PersistedFields :
                        storage'.rows[i][f] = activeOverrides[t][i][f]]_vars

\* a tab has persisted a list in which an override is flagged expiring
C14_Witness ==
  \E t \in Tabs :
    /\ ~persistPending[t]
    /\ ExpiringIds(activeOverrides[t]) # {}
    /\ storage = JsonValue(cleanState(activeOverrides[t]))
    /\ ExpiringIds(activeOverrides[t]) \subseteq Ids(storage.rows)

\* C15: ingestion is idempotent: once a tab has taken a snapshot in (by a
\* storage event or by the re-read a broadcast message triggers), taking the
\* same snapshot in again, by either path and with the clock where it was,
\* leaves the list as the first delivery left it.
C15_IngestTwice ==
  [][\A t \in Tabs :
       LET new == activeOverrides'[t]
       IN /\ handleStorageChange(t) /\ Head(storageEvents[t]).kind = "json"
               => LET e == Head(storageEvents[t])
                  IN /\ StorageIngest(new, e.rows, now') = new
                     /\ MessageIngest(new, e, now') = new
          /\ onmessage(t) /\ storage.kind = "json"
               => /\ MessageIngest(new, storage, now') = new
                  /\ StorageIngest(new, storage.rows, now') = new]_vars

\* tab B took the snapshot in from a storage event and, after a tick of tab A
\* posted a pulse, again from the re-read of storage
C15_Witness ==
  /\ lastWarned["A"] # {}
  /\ pulses["B"] = 0
  /\ storageEvents["B"] = <<>>
  /\ ~persistPending["B"]
  /\ ExpiringIds(activeOverrides["B"]) # {}
  /\ activeOverrides["B"] = calculateDerivedState(storage.rows, now)

\* the fields an ActiveOverride must have
WellFormedRow(r) ==
  /\ r.serviceId # Undefined /\ r.serviceName # Undefined
  /\ r.envId # Undefined /\ r.level # Undefined

Malformed(v) ==
  \/ v.kind = "text"
  \/ v.kind = "json" /\ \E i \in 1..Len(v.rows) : ~WellFormedRow(v.rows[i])

\* C16: when the value read at ingestion (storage event, re-read triggered by
\* a broadcast message, or initial load) is malformed, the tab's list is left
\* as it was: an initial load leaves the list empty, a storage event or a
\* re-read leaves it unchanged.
C16_Malformed ==
  /\ Malformed(storage) => \A t \in Tabs : activeOverrides[t] = <<>>
  /\ [][\A t \in Tabs :
          /\ handleStorageChange(t) /\ Malformed(Head(storageEvents[t]))
               => activeOverrides'[t] = activeOverrides[t]
          /\ onmessage(t) /\ Malformed(storage)
               => activeOverrides'[t] = activeOverrides[t]]_vars


RowsOf(list, svc) == SelectSeq(cleanState(list), LAMBDA o : o.serviceId = svc)

Succeeded(a) == {e.serviceId : e \in Range(a.entries)}

\* C17: in connected mode a bulk apply records an override for exactly the
\* selected services whose remote apply returned true; for a service whose
\* remote apply returned false no override is created, an override the tab
\* already holds for that service is left as it was, and the name of the
\* service is in the failure list the handler reports.
C17_PartialApply ==
  [][\A t \in Tabs :
       (handleApplyBulk_commit(t) \/ handleApplyChanges_commit(t))
         /\ ~applying[t].demo
       => LET a == applying[t]
              old == activeOverrides[t]
              new == activeOverrides'[t]
          IN /\ Ids(new) \ Ids(old) = Ids(a.entries)
             /\ Succeeded(a) \subseteq a.selected
             /\ \A svc \in a.selected \ Succeeded(a) :
                   /\ RowsOf(new, svc) = RowsOf(old, svc)
                   /\ ServiceName(svc) \in ReportedFailures(a)]_vars


\* C18: while no operator is signed in to a tab, the tab's expiry clock does
\* not tick: no step is a tick of that tab, the tab fires no alert, posts no
\* broadcast message, and no override leaves its list other than by a
\* snapshot taken in or by a request that was in flight at logout; a tick
\* happens only between login and logout.
C18_ClockInert ==
  [][\A t \in Tabs :
       /\ Tick(t) => user[t] /\ user'[t]
       /\ ~user[t] /\ ~user'[t]
            => /\ revertedAlerts'[t] = revertedAlerts[t]
               /\ lastWarned'[t] = lastWarned[t]
               /\ notifiedIds'[t] = notifiedIds[t]
               /\ \A u \in Others(t) : pulses'[u] <= pulses[u]
               /\ \/ Ids(activeOverrides[t]) \subseteq Ids(activeOverrides'[t])
                  \/ handleStorageChange(t)
                  \/ onmessage(t)
                  \/ handleApplyBulk_commit(t)
                  \/ handleApplyChanges_commit(t)
                  \/ \E id \in AllIds : handleRemoveOverrideV1_finish(t, id)]_vars

\* a tab in which nobody is signed in holds an override whose expiryTime has
\* passed
C18_Witness ==
  \E t \in Tabs :
    /\ ~user[t]
    /\ Expired(activeOverrides[t], now) # <<>>
    /\ Quiet

\* the overrides of the tab's list whose expiryTime the clock has passed
PastExpiry(t) == IF user[t] THEN Ids(Expired(activeOverrides[t], now)) ELSE {}

\* C19: in a signed-in tab whose tick keeps firing and to which no storage
\* event and no broadcast message is ever delivered, every override whose
\* expiryTime the clock has passed is eventually dropped from the list,
\* unless it is renewed (its expiryTime is moved past the clock) first: from
\* any state in which the list holds such overrides, a state is reached in
\* which it holds none of them.
C19_Dropped ==
  \A t \in Operators :
     PastExpiry(t) # {} ~> PastExpiry(t) = {}

\* the tick of the tab has dropped an override at its expiryTime
C19_Witness ==
  \E t \in Operators :
    /\ user[t]
    /\ revertedAlerts[t].once # {}
    /\ revertedAlerts[t].once \cap Ids(activeOverrides[t]) = {}
    /\ storageEvents[t] = <<>> /\ pulses[t] = 0
    /\ now = MaxNow

\* C20: a tick of the main App after which some override of the list is
\* expiring-soon posts exactly one FORCE_POPUP message (every other tab has
\* one more message to handle, up to the bound on messages in flight), and a
\* tick after which none is expiring-soon posts none.
C20_OnePulse ==
  [][\A t \in Tabs :
       TickV2(t)
         => /\ pulses'[t] = pulses[t]
            /\ \A u \in Others(t) :
                  pulses'[u] = IF ExpiringIds(activeOverrides'[t]) # {}
                                  /\ pulses[u] < MaxPulse
                               THEN pulses[u] + 1
                               ELSE pulses[u]]_vars

\* a tick has just warned about an expiring override and left one message
\* for the other tab
C20_Witness ==
  /\ variant = "v2"
  /\ lastWarned["A"] # {}
  /\ ExpiringIds(activeOverrides["A"]) # {}
  /\ pulses["B"] = 1

\* C21: whenever a tab takes a persisted snapshot in (storage event or
\* re-read of storage triggered by a broadcast message), the list it installs
\* holds no override with expiryTime <= now: the rows of the snapshot that
\* have expired are filtered out first.
C21_IngestLive ==
  [][\A t \in Tabs :
       \/ handleStorageChange(t) /\ Head(storageEvents[t]).kind = "json"
       \/ onmessage(t) /\ storage.kind = "json"
       => Expired(activeOverrides'[t], now') = <<>>]_vars


RemovalStep(t, id) ==
  \/ handleRemoveOverride(t, id)
  \/ handleRemoveOverrideV1_start(t, id) /\ connectionStatus[t] = "demo"
  \/ handleRemoveOverrideV1_finish(t, id)

\* C22: a removal the operator asked for deletes exactly the entry with that
\* id from the tab's list, whatever the remote revert call returned, and
\* leaves every other entry as it was; while the call of the earlier App is
\* pending the list is untouched, and an id that has left the list meanwhile
\* is not brought back.
C22_RemoveById ==
  [][\A t \in Tabs : \A id \in AllIds :
       LET old == activeOverrides[t]
           new == activeOverrides'[t]
       IN /\ RemovalStep(t, id)
               => IF id \in Ids(old)
                  THEN \E i \in 1..Len(old) :
                          old[i].id = id /\ new = RemoveAt(old, i)
                  ELSE new = old
          /\ handleRemoveOverrideV1_start(t, id) /\ connectionStatus[t] # "demo"
               => new = old]_vars

\* the earlier App, in a connected session, applied to order-api and auth-svc
\* and, once its revert call was back, has removed the order-api override,
\* which the other tab still shows
C22_Witness ==
  \E t \in Tabs :
    /\ variant = "v1" /\ user[t] /\ connectionStatus[t] = "connected"
    /\ now = 0 /\ nextId = 2
    /\ reverting[t] = {}
    /\ {o.serviceId : o \in Range(activeOverrides[t])} = {"auth-svc"}
    /\ \A u \in Others(t) :
         {o.serviceId : o \in Range(activeOverrides[u])} = {"order-api", "auth-svc"}

\* the list holds, for every service of selection s, an override with the
\* selected level that starts at t1
Recorded(list, s, t1) ==
  \A svc \in Range(s.sel) :
     \E o \in Range(list) :
        o.serviceId = svc /\ o.level = s.level /\ o.startTime = t1

\* C23: no local state transition waits for a remote call: in a connected
\* session the list holds the new overrides when the handler of an apply
\* returns to the event loop, the renewed expiryTime when a renew is issued
\* and no longer the removed id when a remove is issued; the steps at which
\* the remote calls resolve leave the list as it is.
C23_NotGated ==
  [][\A t \in Tabs :
       LET old == activeOverrides[t]
           new == activeOverrides'[t]
       IN /\ \A s \in Selections :
               (handleApplyBulk_start(t, s) \/ handleApplyChanges_start(t, s))
                 /\ connectionStatus[t] # "demo"
               => Recorded(new, s, now)
          /\ \A id \in AllIds :
               /\ handleRenewOverride(t, id) => new = RenewById(old, id, now)
               /\ handleRemoveOverrideV1_start(t, id) => id \notin Ids(new)
               /\ handleRemoveOverrideV1_finish(t, id) => new = old
          /\ (handleApplyBulk_commit(t) \/ handleApplyChanges_commit(t))
               /\ ~applying[t].demo
               => new = old]_vars


\* C24: a tick handles each override with expiryTime <= now thus: it emits
\* the reverted event for it, issues a revert call for its service and drops
\* it from the list; the flags of the list it returns are those of the
\* remaining live overrides, computed at the time of the tick.
C24_TickOrder ==
  [][\A t \in Tabs :
       Tick(t)
         => LET expired == Expired(activeOverrides[t], now)
                new == activeOverrides'[t]
            IN /\ Ids(expired) \subseteq
                    revertedAlerts'[t].once \cup revertedAlerts'[t].again
               /\ TickReverts(activeOverrides[t], now)
                    = {o.serviceId : o \in Range(expired)}
               /\ Ids(new) = Ids(activeOverrides[t]) \ Ids(expired)
               /\ \A o \in Range(new) :
                     o.isExpiringSoon = IsExpiringSoonAt(o.expiryTime, now)]_vars


\* C25: after every tick the notified-id set of the tab is a subset of the
\* ids of the overrides that are expiring-soon in the list the tick returns.
C25_NotifiedExpiring ==
  [][\A t \in Tabs :
       Tick(t) => notifiedIds'[t] \subseteq ExpiringIds(activeOverrides'[t])]_vars


\* the tick of this step has fired the reverted alert for id
FiredReverted(t, id) ==
  \/ id \notin revertedAlerts[t].once /\ id \in revertedAlerts'[t].once
  \/ id \in revertedAlerts[t].once /\ id \in revertedAlerts'[t].again

\* C26: the reverted alert of a tick does not depend on the notified set: it
\* fires for every override the tick removes as expired, whether or not the
\* id is in the notified set, and firing it does not add the id to the set.
C26_RevertedUngated ==
  [][\A t \in Tabs :
       Tick(t)
         => \A id \in Ids(Expired(activeOverrides[t], now)) :
               /\ FiredReverted(t, id)
               /\ id \notin notifiedIds[t] => id \notin notifiedIds'[t]]_vars


\* the row has been renewed: its expiryTime is no longer startTime +
\* totalDuration
RenewedRow(o) == o.expiryTime # o.startTime + o.totalDuration

\* C27: an override that was renewed and later crosses the 60000 ms
\* threshold again triggers a new warning alert at that crossing: the tick
\* that flags the renewed override as expiring-soon, when it was not at the
\* previous instant of the clock, warns about it, whatever was notified
\* before the renewal.
C27_WarnAgain ==
  [][\A t \in Tabs :
       TickV2(t)
         => \A o \in Range(activeOverrides'[t]) :
               /\ RenewedRow(o)
               /\ o.isExpiringSoon
               /\ ~IsExpiringSoonAt(o.expiryTime, now - ClockStep)
               /\ \E p \in Range(activeOverrides[t]) :
                     p.id = o.id /\ ~p.isExpiringSoon
               => o.id \in lastWarned'[t]]_vars

\* the tick at 160000 has warned about an override that was warned about and
\* renewed at 80000
C27_Witness ==
  \E t \in Tabs : \E o \in Range(activeOverrides[t]) :
    /\ now = MaxNowLate
    /\ o.expiryTime = 2 * ClockStep + o.totalDuration
    /\ RenewedRow(o)
    /\ o.id \in lastWarned[t]

\* C28: taking a snapshot in never makes the tab write storage back: the
\* persist effect of a tab that does nothing but take snapshots in finds its
\* serialized list equal to the stored value and leaves storage as it is.
C28_NoEcho ==
  [][\A t \in Tabs \ Operators :
       PersistEffect(t) => storage' = storage]_vars


\* C29: an override the operator of a tab has removed (remove or accept all
\* resets) and that nobody creates again is not put back into the tab's list
\* by a later storage event, broadcast message or tick. In a run in which
\* only this tab creates overrides and an override leaves its list only by
\* such a removal or by expiring, no such step adds to the list an id the
\* list does not hold, unless the override has expired.
C29_StaysRemoved ==
  [][\A t \in Operators :
       (handleStorageChange(t) \/ onmessage(t) \/ Tick(t))
         => \A o \in Range(activeOverrides'[t]) :
               o.id \in Ids(activeOverrides[t]) \/ o.expiryTime <= now]_vars


\* C30: a logout empties the list of the tab and removes the storage key,
\* and the persist effect that follows writes []; the removal event (null
\* new value) changes no other tab's list, and a tab that handles the event
\* of the write of [] ends with an empty list.
C30_Logout ==
  [][\A t \in Tabs :
       /\ handleLogout(t)
            => /\ activeOverrides'[t] = <<>>
               /\ storage' = NullValue
               /\ persistPending'[t]
       /\ PersistEffect(t) /\ activeOverrides[t] = <<>> /\ storage = NullValue
            => storage' = JsonValue(<<>>)
       /\ handleStorageChange(t) /\ Head(storageEvents[t]) = NullValue
            => activeOverrides'[t] = activeOverrides[t]
       /\ handleStorageChange(t) /\ Head(storageEvents[t]) = JsonValue(<<>>)
            => activeOverrides'[t] = <<>>]_vars

\* tab A has logged out and removed the key; the other tab has handled the
\* removal event and still holds its override, while the write of [] is
\* still to come
C30_Witness ==
  /\ ~user["A"] /\ persistPending["A"]
  /\ activeOverrides["A"] = <<>>
  /\ storage = NullValue
  /\ storageEvents["B"] = <<>>
  /\ activeOverrides["B"] # <<>>
====
